---- MODULE Spec2Model ----
(***************************************************************************)
(* The Big Arrows argument-graph store (store/useArrowsStore.ts): a keyed  *)
(* mapping of frames, the current frame, the expanded arrow and the        *)
(* breadcrumb trail, with the twelve store operations as actions, and the   *)
(* handlers of the canvas and of the arrow panel that call them.           *)
(*                                                                         *)
(* Objects are records; a Partial<T> argument is a record over a subset of *)
(* T's fields and the object spread {...a, ...b} is Merge(a, b).  An       *)
(* optional field that is unset is absent from the record's DOMAIN.        *)
(***************************************************************************)
EXTENDS Integers, Sequences, FiniteSets, TLC

VARIABLES
    frames,           \* Record<string, Frame>
    currentFrameId,   \* string
    expandedArrowId,  \* string | null
    breadcrumbs,      \* string[]
    selectedArrowId,  \* App's useState<string | null>: the arrow the panel edits
    nanoCount,        \* how many ids nanoid() has handed out
    opCount,          \* how many operations and handlers have been called
    last,             \* the last call: operation, arguments, returned value
    prev              \* the store's state when the last call was made

vars ==
    <<frames, currentFrameId, expandedArrowId, breadcrumbs, selectedArrowId,
      nanoCount, opCount, last, prev>>

\* The store's own state (ArrowsState without its functions).
store ==
    [frames |-> frames, currentFrameId |-> currentFrameId,
     expandedArrowId |-> expandedArrowId, breadcrumbs |-> breadcrumbs]

-----------------------------------------------------------------------------
\* Bounds of the model.

\* Store operations called in one behaviour.
MaxOps == 3

\* Ids nanoid() may hand out in one behaviour.
MaxIds == 3

-----------------------------------------------------------------------------
\* Values.

\* JavaScript null (expandedArrowId: string | null); no id is this string.
Null == "<null>"

\* undefined as the value of a property an argument object spells out, as in
\* {nodes: undefined}: a spread copies it over the default like any value.
Undefined == "<undefined>"

\* v === undefined, for a v of any kind.
IsUndefined(v) == ToString(v) = ToString(Undefined)

\* What a call that raised a TypeError has for a return value.
TypeError == "<TypeError>"

\* The object with no fields: {} as a Partial<T>, and an argument that is not used.
NoFields == [k \in {} |-> ""]

\* {...base, ...upd}
Merge(base, upd) ==
    [k \in DOMAIN base \cup DOMAIN upd |-> IF k \in DOMAIN upd THEN upd[k] ELSE base[k]]

\* The n-th id nanoid() returns: a string no seed id and no argument equals.
nanoid(n) == "nano" \o ToString(n)

\* Array.prototype.findIndex(x => x.id === id), 1-based; 0 stands for -1.
FindIndex(seq, id) ==
    IF \E i \in 1..Len(seq) : seq[i].id = id
    THEN CHOOSE i \in 1..Len(seq) :
            /\ seq[i].id = id
            /\ \A j \in 1..(i - 1) : seq[j].id # id
    ELSE 0

\* Array.prototype.includes
Includes(seq, x) == \E i \in 1..Len(seq) : seq[i] = x

\* Array.prototype.indexOf, 1-based; 0 stands for -1.
IndexOf(seq, x) ==
    IF Includes(seq, x)
    THEN CHOOSE i \in 1..Len(seq) : seq[i] = x /\ \A j \in 1..(i - 1) : seq[j] # x
    ELSE 0

-----------------------------------------------------------------------------
\* data/exampleData.ts: the frames the store is constructed with (the arrow
\* character of its titles and contents is written ->).

SeedNode(id, type, content, x, y, data) ==
    [id |-> id, type |-> type, content |-> content, position |-> [x |-> x, y |-> y],
     data |-> data]

SeedArrow(id, source, target, type) ==
    [id |-> id, source |-> source, target |-> target, type |-> type, hasSubFrame |-> FALSE]

SeedArrowSub(id, source, target, type, subFrameId) ==
    [id |-> id, source |-> source, target |-> target, type |-> type, hasSubFrame |-> TRUE,
     subFrameId |-> subFrameId]

exampleMain ==
    [id |-> "main",
     title |-> "Climate Change Policy Argument",
     description |-> "Top-level argument structure",
     level |-> 0,
     nodes |-> <<
        SeedNode("scientific-evidence", "proposition", "Scientific Evidence", 250, 100,
                 [description |-> "Established Knowledge"]),
        SeedNode("carbon-tax", "proposition", "Carbon Tax Policy", 650, 100,
                 [description |-> "Proposed Solution"]),
        SeedNode("economic-analysis", "proposition", "Economic Analysis", 250, 300,
                 [description |-> "Impact Assessment"]),
        SeedNode("implementation-plan", "proposition", "Implementation Plan", 650, 300,
                 [description |-> "Strategic Approach"]) >>,
     arrows |-> <<
        SeedArrowSub("arrow-scientific-to-carbon", "scientific-evidence", "carbon-tax",
                     "logical", "scientific-carbon"),
        SeedArrow("arrow-scientific-to-economic", "scientific-evidence", "economic-analysis",
                  "supportive"),
        SeedArrow("arrow-economic-to-implementation", "economic-analysis",
                  "implementation-plan", "causal"),
        SeedArrow("arrow-carbon-to-implementation", "carbon-tax", "implementation-plan",
                  "logical") >>]

exampleScientificCarbon ==
    [id |-> "scientific-carbon",
     title |-> "Scientific Evidence -> Carbon Tax",
     description |-> "Arguments linking scientific evidence to carbon tax policy",
     parentArrowId |-> "arrow-scientific-to-carbon",
     level |-> 1,
     nodes |-> <<
        SeedNode("human-co2", "proposition", "Human Activity -> CO2 Increase", 150, 100,
                 NoFields),
        SeedNode("co2-temp", "proposition", "CO2 Increase -> Temperature Rise", 400, 100,
                 NoFields),
        SeedNode("climate-models", "proposition", "Climate Models", 150, 250, NoFields),
        SeedNode("carbon-reduction", "proposition", "Need for Carbon Reduction", 400, 250,
                 NoFields),
        SeedNode("carbon-tax-emissions", "proposition", "Carbon Tax -> Emissions Reduction",
                 275, 400, NoFields) >>,
     arrows |-> <<
        SeedArrow("arrow-human-to-co2", "human-co2", "co2-temp", "causal"),
        SeedArrow("arrow-co2-to-reduction", "co2-temp", "carbon-reduction", "logical"),
        SeedArrowSub("arrow-models-to-reduction", "climate-models", "carbon-reduction",
                     "supportive", "climate-models-detail"),
        SeedArrow("arrow-reduction-to-tax", "carbon-reduction", "carbon-tax-emissions",
                  "logical") >>]

exampleClimateModelsDetail ==
    [id |-> "climate-models-detail",
     title |-> "Climate Models",
     description |-> "Details on climate modeling",
     parentArrowId |-> "arrow-models-to-reduction",
     level |-> 2,
     nodes |-> <<
        SeedNode("physics", "axiom", "Atmospheric Physics", 100, 100, NoFields),
        SeedNode("data", "proposition", "Historical Data", 300, 100, NoFields),
        SeedNode("models", "proposition", "Simulation Models", 200, 200, NoFields) >>,
     arrows |-> <<
        SeedArrow("arrow-physics-to-models", "physics", "models", "supportive"),
        SeedArrow("arrow-data-to-models", "data", "models", "supportive") >>]

exampleData ==
    [k \in {"main", "scientific-carbon", "climate-models-detail"} |->
        CASE k = "main" -> exampleMain
          [] k = "scientific-carbon" -> exampleScientificCarbon
          [] OTHER -> exampleClimateModelsDetail]

-----------------------------------------------------------------------------
\* The record of a call, kept for the properties: a store operation's name, the
\* frameId / nodeId-or-arrowId / Partial<T> it was called with ("" and NoFields
\* where it has no such parameter) and what it returned ("" for void).
Call(op, frameId, id, fields, ret) ==
    [op |-> op, frameId |-> frameId, id |-> id, fields |-> fields, ret |-> ret]

Init ==
    /\ frames = exampleData
    /\ currentFrameId = "main"
    /\ expandedArrowId = Null
    /\ breadcrumbs = <<"main">>
    /\ selectedArrowId = Null
    /\ nanoCount = 0
    /\ opCount = 0
    /\ last = Call("init", "", "", NoFields, "")
    /\ prev = store

\* Every action is one whole call of a store operation or of a handler.
Handled(call) ==
    /\ opCount < MaxOps
    /\ opCount' = opCount + 1
    /\ last' = call
    /\ prev' = store

\* A store operation called on its own leaves App's selection alone.
Called(call) ==
    /\ Handled(call)
    /\ selectedArrowId' = selectedArrowId

-----------------------------------------------------------------------------
\* Navigation actions.

\* Mutant: the test is arrow?.hasSubFrame alone.
ExpandableByFlag(currentFrame, arrowId) ==
    LET i == FindIndex(currentFrame.arrows, arrowId) IN
    /\ i # 0
    /\ currentFrame.arrows[i].hasSubFrame

\* expandArrow's test `arrow?.hasSubFrame && arrow.subFrameId` on the arrow that
\* currentFrame.arrows.find(a => a.id === arrowId) returns.
Expandable(currentFrame, arrowId) ==
    LET i == FindIndex(currentFrame.arrows, arrowId) IN
    /\ i # 0
    /\ currentFrame.arrows[i].hasSubFrame
    /\ "subFrameId" \in DOMAIN currentFrame.arrows[i]
    /\ currentFrame.arrows[i].subFrameId # ""

\* Mutant: a successful expandArrow records the arrow in the trail.
expandArrowRecorded(arrowId) ==
    /\ Called(Call("expandArrow", "", arrowId, NoFields, ""))
    /\ IF Expandable(frames[currentFrameId], arrowId)
       THEN /\ expandedArrowId' = arrowId
            /\ breadcrumbs' = Append(breadcrumbs, arrowId)
       ELSE UNCHANGED <<expandedArrowId, breadcrumbs>>
    /\ UNCHANGED <<frames, currentFrameId, nanoCount>>

expandArrow(arrowId) ==
    /\ Called(Call("expandArrow", "", arrowId, NoFields, ""))
    /\ expandedArrowId' =
          IF Expandable(frames[currentFrameId], arrowId) THEN arrowId ELSE expandedArrowId
    /\ UNCHANGED <<frames, currentFrameId, breadcrumbs, nanoCount>>

\* Mutant: collapseArrow leaves expandedArrowId as it is.
collapseArrowKeeps ==
    /\ Called(Call("collapseArrow", "", "", NoFields, ""))
    /\ UNCHANGED <<frames, currentFrameId, expandedArrowId, breadcrumbs, nanoCount>>

collapseArrow ==
    /\ Called(Call("collapseArrow", "", "", NoFields, ""))
    /\ expandedArrowId' = Null
    /\ UNCHANGED <<frames, currentFrameId, breadcrumbs, nanoCount>>

\* Mutant: the slice stops before frameId, slice(0, indexOf(frameId)).
NavigatedBreadcrumbsCutShort(crumbs, frameId) ==
    IF ~Includes(crumbs, frameId)
    THEN Append(crumbs, frameId)
    ELSE SubSeq(crumbs, 1, IndexOf(crumbs, frameId) - 1)

\* Mutant: the slice keeps the trail from frameId on, slice(indexOf(frameId)).
NavigatedBreadcrumbsSuffix(crumbs, frameId) ==
    IF ~Includes(crumbs, frameId)
    THEN Append(crumbs, frameId)
    ELSE SubSeq(crumbs, IndexOf(crumbs, frameId), Len(crumbs))

\* Mutant: frameId is pushed whether or not the trail includes it.
NavigatedBreadcrumbsPushOnly(crumbs, frameId) == Append(crumbs, frameId)

\* navigateToFrame's breadcrumb update: push, or slice(0, indexOf(frameId) + 1).
NavigatedBreadcrumbs(crumbs, frameId) ==
    IF ~Includes(crumbs, frameId)
    THEN Append(crumbs, frameId)
    ELSE SubSeq(crumbs, 1, IndexOf(crumbs, frameId))

\* Mutant: navigateToFrame does not clear expandedArrowId.
navigateToFrameKeepsExpansion(frameId) ==
    /\ Called(Call("navigateToFrame", frameId, "", NoFields, ""))
    /\ IF frameId \in DOMAIN frames
       THEN /\ currentFrameId' = frameId
            /\ breadcrumbs' = NavigatedBreadcrumbs(breadcrumbs, frameId)
       ELSE UNCHANGED <<currentFrameId, breadcrumbs>>
    /\ UNCHANGED <<frames, expandedArrowId, nanoCount>>

\* Mutant: navigateToFrame does not test that frames[frameId] exists.
navigateToFrameUnguarded(frameId) ==
    /\ Called(Call("navigateToFrame", frameId, "", NoFields, ""))
    /\ currentFrameId' = frameId
    /\ expandedArrowId' = Null
    /\ breadcrumbs' = NavigatedBreadcrumbs(breadcrumbs, frameId)
    /\ UNCHANGED <<frames, nanoCount>>

navigateToFrame(frameId) ==
    /\ Called(Call("navigateToFrame", frameId, "", NoFields, ""))
    /\ IF frameId \in DOMAIN frames
       THEN /\ currentFrameId' = frameId
            /\ expandedArrowId' = Null
            /\ breadcrumbs' = NavigatedBreadcrumbs(breadcrumbs, frameId)
       ELSE UNCHANGED <<currentFrameId, expandedArrowId, breadcrumbs>>
    /\ UNCHANGED <<frames, nanoCount>>

\* Mutant: the guard is off by one, breadcrumbs.length > 2.
CanGoBackOffByOne(crumbs) == Len(crumbs) > 2

\* navigateBack's guard, breadcrumbs.length > 1.
CanGoBack(crumbs) == Len(crumbs) > 1

\* Mutant: navigateBack clears expandedArrowId before it tests the trail.
navigateBackClearsAlways ==
    /\ Called(Call("navigateBack", "", "", NoFields, ""))
    /\ expandedArrowId' = Null
    /\ IF CanGoBack(breadcrumbs)
       THEN /\ currentFrameId' = breadcrumbs[Len(breadcrumbs) - 1]
            /\ breadcrumbs' = SubSeq(breadcrumbs, 1, Len(breadcrumbs) - 1)
       ELSE UNCHANGED <<currentFrameId, breadcrumbs>>
    /\ UNCHANGED <<frames, nanoCount>>

navigateBack ==
    /\ Called(Call("navigateBack", "", "", NoFields, ""))
    /\ IF CanGoBack(breadcrumbs)
       THEN /\ currentFrameId' = breadcrumbs[Len(breadcrumbs) - 1]
            /\ expandedArrowId' = Null
            /\ breadcrumbs' = SubSeq(breadcrumbs, 1, Len(breadcrumbs) - 1)
       ELSE UNCHANGED <<currentFrameId, expandedArrowId, breadcrumbs>>
    /\ UNCHANGED <<frames, nanoCount>>

-----------------------------------------------------------------------------
\* Basic CRUD operations.

\* createNode's newNode: the defaults, then ...node.
NewNode(newNodeId, node) ==
    Merge([id |-> newNodeId, type |-> "proposition", content |-> "",
           position |-> [x |-> 100, y |-> 100]], node)

\* frame.nodes.push, frame.nodes.findIndex and frame.nodes.filter raise a
\* TypeError inside set() on a frame whose nodes is undefined; the draft is
\* dropped and the store stays as it was.
NodesRaise(fs, frameId) == frameId \in DOMAIN fs /\ IsUndefined(fs[frameId].nodes)

createNode(frameId, node) ==
    /\ nanoCount < MaxIds
    /\ LET newNodeId == nanoid(nanoCount + 1) IN
       /\ Called(Call("createNode", frameId, "", node,
                      IF NodesRaise(frames, frameId) THEN TypeError ELSE newNodeId))
       /\ nanoCount' = nanoCount + 1
       /\ frames' =
             IF frameId \in DOMAIN frames /\ ~NodesRaise(frames, frameId)
             THEN [frames EXCEPT ![frameId].nodes = Append(@, NewNode(newNodeId, node))]
             ELSE frames
    /\ UNCHANGED <<currentFrameId, expandedArrowId, breadcrumbs>>

\* updateNode / updateArrow inside an existing frame: the element findIndex
\* finds becomes {...element, ...updates}; nothing changes when it finds none.
UpdatedAt(seq, id, updates) ==
    LET i == FindIndex(seq, id) IN
    IF i # 0 THEN [seq EXCEPT ![i] = Merge(@, updates)] ELSE seq

updateNode(frameId, nodeId, updates) ==
    /\ Called(Call("updateNode", frameId, nodeId, updates,
                   IF NodesRaise(frames, frameId) THEN TypeError ELSE ""))
    /\ frames' =
          IF frameId \in DOMAIN frames /\ ~NodesRaise(frames, frameId)
          THEN [frames EXCEPT ![frameId].nodes = UpdatedAt(@, nodeId, updates)]
          ELSE frames
    /\ UNCHANGED <<currentFrameId, expandedArrowId, breadcrumbs, nanoCount>>

\* deleteNode's two filters.
NodesWithout(nodes, nodeId) == SelectSeq(nodes, LAMBDA n : n.id # nodeId)

\* Mutant: the cascade tests the source only.
ArrowsNotAtSourceOnly(arrows, nodeId) == SelectSeq(arrows, LAMBDA a : a.source # nodeId)

ArrowsNotAt(arrows, nodeId) ==
    SelectSeq(arrows, LAMBDA a : a.source # nodeId /\ a.target # nodeId)

\* Mutant: the node and its arrows are removed from every frame.
deleteNodeEverywhere(frameId, nodeId) ==
    /\ Called(Call("deleteNode", frameId, nodeId, NoFields, ""))
    /\ frames' =
          IF frameId \in DOMAIN frames
          THEN [f \in DOMAIN frames |->
                  IF IsUndefined(frames[f].nodes)
                  THEN frames[f]
                  ELSE [frames[f] EXCEPT !.nodes = NodesWithout(@, nodeId),
                                         !.arrows = ArrowsNotAt(@, nodeId)]]
          ELSE frames
    /\ UNCHANGED <<currentFrameId, expandedArrowId, breadcrumbs, nanoCount>>

deleteNode(frameId, nodeId) ==
    /\ Called(Call("deleteNode", frameId, nodeId, NoFields,
                   IF NodesRaise(frames, frameId) THEN TypeError ELSE ""))
    /\ frames' =
          IF frameId \in DOMAIN frames /\ ~NodesRaise(frames, frameId)
          THEN [frames EXCEPT ![frameId].nodes = NodesWithout(@, nodeId),
                              ![frameId].arrows = ArrowsNotAt(@, nodeId)]
          ELSE frames
    /\ UNCHANGED <<currentFrameId, expandedArrowId, breadcrumbs, nanoCount>>

\* createArrow's newArrow: the defaults, then ...arrow.
NewArrow(newArrowId, arrow) ==
    Merge([id |-> newArrowId, source |-> "", target |-> "", type |-> "logical",
           hasSubFrame |-> FALSE], arrow)

createArrow(frameId, arrow) ==
    /\ nanoCount < MaxIds
    /\ LET newArrowId == nanoid(nanoCount + 1) IN
       /\ Called(Call("createArrow", frameId, "", arrow, newArrowId))
       /\ nanoCount' = nanoCount + 1
       /\ frames' =
             IF frameId \in DOMAIN frames
             THEN [frames EXCEPT ![frameId].arrows = Append(@, NewArrow(newArrowId, arrow))]
             ELSE frames
    /\ UNCHANGED <<currentFrameId, expandedArrowId, breadcrumbs>>

\* Mutant: an update that clears hasSubFrame also takes the subFrameId away.
updateArrowUnlinks(frameId, arrowId, updates) ==
    /\ Called(Call("updateArrow", frameId, arrowId, updates, ""))
    /\ frames' =
          IF frameId \in DOMAIN frames
          THEN LET i == FindIndex(frames[frameId].arrows, arrowId)
                   arrows == UpdatedAt(frames[frameId].arrows, arrowId, updates)
               IN  IF i # 0 /\ ~arrows[i].hasSubFrame
                   THEN [frames EXCEPT ![frameId].arrows =
                            [arrows EXCEPT ![i] =
                                [k \in DOMAIN @ \ {"subFrameId"} |-> @[k]]]]
                   ELSE [frames EXCEPT ![frameId].arrows = arrows]
          ELSE frames
    /\ UNCHANGED <<currentFrameId, expandedArrowId, breadcrumbs, nanoCount>>

updateArrow(frameId, arrowId, updates) ==
    /\ Called(Call("updateArrow", frameId, arrowId, updates, ""))
    /\ frames' =
          IF frameId \in DOMAIN frames
          THEN [frames EXCEPT ![frameId].arrows = UpdatedAt(@, arrowId, updates)]
          ELSE frames
    /\ UNCHANGED <<currentFrameId, expandedArrowId, breadcrumbs, nanoCount>>

\* Mutant: the arrows are cut at the first arrow with the id, as by
\* splice(index) with no delete count.
ArrowsBefore(arrows, arrowId) ==
    LET i == FindIndex(arrows, arrowId) IN
    IF i # 0 THEN SubSeq(arrows, 1, i - 1) ELSE arrows

\* deleteArrow's filter.
ArrowsWithout(arrows, arrowId) == SelectSeq(arrows, LAMBDA a : a.id # arrowId)

\* Mutant: deleteArrow also deletes the frame the arrow's subFrameId names.
deleteArrowWithSubFrame(frameId, arrowId) ==
    /\ Called(Call("deleteArrow", frameId, arrowId, NoFields, ""))
    /\ frames' =
          IF frameId \in DOMAIN frames
          THEN LET i == FindIndex(frames[frameId].arrows, arrowId)
                   kept == [frames EXCEPT ![frameId].arrows = ArrowsWithout(@, arrowId)]
               IN  IF i # 0 /\ "subFrameId" \in DOMAIN frames[frameId].arrows[i]
                   THEN [k \in DOMAIN kept \ {frames[frameId].arrows[i].subFrameId} |->
                            kept[k]]
                   ELSE kept
          ELSE frames
    /\ UNCHANGED <<currentFrameId, expandedArrowId, breadcrumbs, nanoCount>>

\* Mutant: deleting the expanded arrow collapses it.
deleteArrowCollapses(frameId, arrowId) ==
    /\ Called(Call("deleteArrow", frameId, arrowId, NoFields, ""))
    /\ frames' =
          IF frameId \in DOMAIN frames
          THEN [frames EXCEPT ![frameId].arrows = ArrowsWithout(@, arrowId)]
          ELSE frames
    /\ expandedArrowId' = IF arrowId = expandedArrowId THEN Null ELSE expandedArrowId
    /\ UNCHANGED <<currentFrameId, breadcrumbs, nanoCount>>

deleteArrow(frameId, arrowId) ==
    /\ Called(Call("deleteArrow", frameId, arrowId, NoFields, ""))
    /\ frames' =
          IF frameId \in DOMAIN frames
          THEN [frames EXCEPT ![frameId].arrows = ArrowsWithout(@, arrowId)]
          ELSE frames
    /\ UNCHANGED <<currentFrameId, expandedArrowId, breadcrumbs, nanoCount>>

-----------------------------------------------------------------------------
\* Frame actions.

\* state.frames[key] = frame
WithFrame(fs, key, frame) ==
    [k \in DOMAIN fs \cup {key} |-> IF k = key THEN frame ELSE fs[k]]

\* createFrame's newFrame: the defaults, then ...frame.
NewFrame(newFrameId, frame) ==
    Merge([id |-> newFrameId, title |-> "New Frame", description |-> "",
           nodes |-> <<>>, arrows |-> <<>>, level |-> 0], frame)

createFrame(frame) ==
    /\ nanoCount < MaxIds
    /\ LET newFrameId == nanoid(nanoCount + 1) IN
       /\ Called(Call("createFrame", "", "", frame, newFrameId))
       /\ nanoCount' = nanoCount + 1
       /\ frames' = WithFrame(frames, newFrameId, NewFrame(newFrameId, frame))
    /\ UNCHANGED <<currentFrameId, expandedArrowId, breadcrumbs>>

\* createSubFrame's newFrame: the defaults, then ...frame.
NewSubFrame(newFrameId, arrowId, currentFrame, frame) ==
    Merge([id |-> newFrameId, title |-> "New Sub-Frame", description |-> "",
           nodes |-> <<>>, arrows |-> <<>>, parentArrowId |-> arrowId,
           level |-> currentFrame.level + 1], frame)

\* Mutant: the write sets subFrameId and leaves hasSubFrame as it was.
LinkedArrowsIdOnly(arrows, arrowId, newFrameId) ==
    LET i == FindIndex(arrows, arrowId) IN
    IF i # 0
    THEN [arrows EXCEPT ![i] = Merge(@, [subFrameId |-> newFrameId])]
    ELSE arrows

\* createSubFrame's write to the arrow findIndex finds in the current frame.
LinkedArrows(arrows, arrowId, newFrameId) ==
    LET i == FindIndex(arrows, arrowId) IN
    IF i # 0
    THEN [arrows EXCEPT ![i] = Merge(@, [hasSubFrame |-> TRUE, subFrameId |-> newFrameId])]
    ELSE arrows

\* Mutant: the early return is missing.
ArrowFoundAlways(currentFrame, arrowId) == TRUE

\* createSubFrame's early return, `if (!arrow) return ''`.
ArrowFound(currentFrame, arrowId) == FindIndex(currentFrame.arrows, arrowId) # 0

\* The frames createSubFrame leaves once the arrow is found.
FramesWithSubFrame(fs, current, arrowId, newFrameId, frame) ==
    LET added == WithFrame(fs, newFrameId,
                           NewSubFrame(newFrameId, arrowId, fs[current], frame)) IN
    IF current \in DOMAIN added
    THEN [added EXCEPT ![current].arrows = LinkedArrows(@, arrowId, newFrameId)]
    ELSE added

createSubFrame(arrowId, frame) ==
    /\ IF ArrowFound(frames[currentFrameId], arrowId)
       THEN /\ nanoCount < MaxIds
            /\ LET newFrameId == nanoid(nanoCount + 1) IN
               /\ Called(Call("createSubFrame", "", arrowId, frame, newFrameId))
               /\ nanoCount' = nanoCount + 1
               /\ frames' = FramesWithSubFrame(frames, currentFrameId, arrowId,
                                               newFrameId, frame)
       ELSE /\ Called(Call("createSubFrame", "", arrowId, frame, ""))
            /\ UNCHANGED <<frames, nanoCount>>
    /\ UNCHANGED <<currentFrameId, expandedArrowId, breadcrumbs>>

-----------------------------------------------------------------------------
\* The arguments the operations are called with: ids that name something in
\* the seed, ids that name nothing, ids of another frame, and Partial<T>
\* objects as the UI passes them and as the types allow them.

NoSuchFrame == "no-such-frame"

\* Arrows of main with a sub-frame and without, and the same of scientific-carbon.
ArrowIdArgs ==
    {"arrow-scientific-to-carbon", "arrow-scientific-to-economic",
     "arrow-models-to-reduction", "arrow-human-to-co2"}

\* <<frameId, Partial<Node>>>; the second is Toolbar's handleAddNode.
CreateNodeArgs ==
    { <<"main", NoFields>>,
      <<"main", [content |-> "New Proposition", position |-> [x |-> 200, y |-> 200]]>>,
      <<"scientific-carbon", [id |-> "carbon-tax"]>>,
      <<nanoid(1), NoFields>>,
      <<NoSuchFrame, NoFields>> }

\* <<frameId, nodeId, Partial<Node>>>
UpdateNodeArgs ==
    { <<"main", "scientific-evidence", [content |-> "edited", type |-> "axiom"]>>,
      <<"main", "scientific-evidence", [id |-> "carbon-tax"]>>,
      <<"main", "", [content |-> "edited"]>>,
      <<NoSuchFrame, "scientific-evidence", [content |-> "edited"]>> }

\* <<frameId, nodeId>>
DeleteNodeArgs ==
    { <<"main", "carbon-tax">>,
      <<"main", "">>,
      <<"scientific-carbon", "carbon-tax">>,
      <<NoSuchFrame, "carbon-tax">> }

\* <<frameId, Partial<Arrow>>>; the second is BigArrowsCanvas's onConnect.
CreateArrowArgs ==
    { <<"main", NoFields>>,
      <<"main", [source |-> "economic-analysis", target |-> "carbon-tax",
                 type |-> "logical", hasSubFrame |-> FALSE]>>,
      <<"main", [id |-> "arrow-scientific-to-economic", source |-> "carbon-tax",
                 target |-> "economic-analysis", hasSubFrame |-> TRUE,
                 subFrameId |-> "climate-models-detail"]>>,
      <<NoSuchFrame, NoFields>> }

\* <<frameId, arrowId, Partial<Arrow>>>
UpdateArrowArgs ==
    { <<"main", "arrow-scientific-to-carbon", [hasSubFrame |-> FALSE]>>,
      <<"main", "arrow-scientific-to-carbon", [hasSubFrame |-> TRUE]>>,
      <<"main", "arrow-scientific-to-economic", [hasSubFrame |-> TRUE]>>,
      <<"main", "arrow-scientific-to-economic",
        [hasSubFrame |-> TRUE, subFrameId |-> NoSuchFrame]>>,
      <<"main", "arrow-scientific-to-carbon", [source |-> "human-co2"]>>,
      <<"main", "arrow-human-to-co2", [hasSubFrame |-> TRUE]>>,
      <<NoSuchFrame, "arrow-scientific-to-carbon", [hasSubFrame |-> FALSE]>> }

\* What the panel's select can be at when Save is clicked.
ArrowTypeArgs == {"logical", "causal"}

\* <<frameId, arrowId>>
DeleteArrowArgs ==
    { <<"main", "arrow-scientific-to-carbon">>,
      <<"main", "arrow-scientific-to-economic">>,
      <<"main", "arrow-human-to-co2">>,
      <<NoSuchFrame, "arrow-scientific-to-carbon">> }

\* Partial<Frame> for createFrame
CreateFrameArgs ==
    { NoFields, [id |-> "main", title |-> "Another", level |-> 3],
      [nodes |-> Undefined] }

\* What ArrowPanel's handleCreateSubFrame passes.
PanelSubFrameFields ==
    [title |-> "New Sub-Frame", description |-> "Arguments supporting this relationship"]

\* <<arrowId, Partial<Frame>>>
CreateSubFrameArgs ==
    { <<"arrow-scientific-to-carbon", PanelSubFrameFields>>,
      <<"arrow-scientific-to-economic", PanelSubFrameFields>>,
      <<"arrow-scientific-to-economic", [level |-> 7]>>,
      <<"arrow-scientific-to-economic", [parentArrowId |-> "arrow-scientific-to-carbon"]>>,
      <<"arrow-human-to-co2", NoFields>> }

-----------------------------------------------------------------------------
\* Handlers of the canvas and of the arrow panel.

\* The edge with this id is drawn: it is an arrow of the current frame.
EdgeDrawn(edgeId) == FindIndex(frames[currentFrameId].arrows, edgeId) # 0

\* BigArrowsCanvas.onEdgeClick: onArrowSelect(edge.id), which is App's
\* handleArrowSelect; no store operation is called.
onEdgeClick(edgeId) ==
    /\ EdgeDrawn(edgeId)
    /\ Handled(Call("onEdgeClick", "", edgeId, NoFields, ""))
    /\ selectedArrowId' = edgeId
    /\ UNCHANGED <<frames, currentFrameId, expandedArrowId, breadcrumbs, nanoCount>>

\* CustomEdge.handleExpandClick, the onClick of the "+" that is drawn on an
\* edge whose data.hasSubFrame is true: expandArrow(id).  Whether the click
\* also reaches onEdgeClick is decided inside ReactFlow: either may happen.
handleExpandClick(id) ==
    /\ EdgeDrawn(id)
    /\ frames[currentFrameId].arrows[FindIndex(frames[currentFrameId].arrows, id)].hasSubFrame
    /\ Handled(Call("handleExpandClick", "", id, NoFields, ""))
    /\ expandedArrowId' =
          IF Expandable(frames[currentFrameId], id) THEN id ELSE expandedArrowId
    /\ selectedArrowId' \in {selectedArrowId, id}
    /\ UNCHANGED <<frames, currentFrameId, breadcrumbs, nanoCount>>

\* ArrowPanel.handleSave with the select at type and the checkbox at
\* hasSubFrame: updateArrow(currentFrameId, arrowId, {type, hasSubFrame}), then
\* onClose().  The panel is drawn only while its arrow is in the current frame.
handleSave(type, hasSubFrame) ==
    /\ selectedArrowId # Null
    /\ EdgeDrawn(selectedArrowId)
    /\ LET updates == [type |-> type, hasSubFrame |-> hasSubFrame] IN
       /\ Handled(Call("handleSave", currentFrameId, selectedArrowId, updates, ""))
       /\ frames' = [frames EXCEPT ![currentFrameId].arrows =
                                      UpdatedAt(@, selectedArrowId, updates)]
    /\ selectedArrowId' = Null
    /\ UNCHANGED <<currentFrameId, expandedArrowId, breadcrumbs, nanoCount>>

\* handleCreateSubFrame's title: the contents of the arrow's source and target
\* nodes around an arrow sign when frame.nodes.find finds both, else the default.
SubFrameTitle(frame, arrow) ==
    LET s == FindIndex(frame.nodes, arrow.source)
        t == FindIndex(frame.nodes, arrow.target)
    IN  IF s # 0 /\ t # 0
        THEN frame.nodes[s].content \o " -> " \o frame.nodes[t].content
        ELSE "New Sub-Frame"

\* Mutant: handleCreateSubFrame calls createSubFrame whether or not the arrow
\* has a subFrameId.
handleCreateSubFrameAlways ==
    /\ selectedArrowId # Null
    /\ EdgeDrawn(selectedArrowId)
    /\ nanoCount < MaxIds
    /\ LET frame == frames[currentFrameId]
           arrow == frame.arrows[FindIndex(frame.arrows, selectedArrowId)]
           fields == [title |-> SubFrameTitle(frame, arrow),
                      description |-> "Arguments supporting this relationship"]
       IN  /\ Handled(Call("handleCreateSubFrame", currentFrameId, selectedArrowId,
                           fields, nanoid(nanoCount + 1)))
           /\ nanoCount' = nanoCount + 1
           /\ frames' = FramesWithSubFrame(frames, currentFrameId, selectedArrowId,
                                           nanoid(nanoCount + 1), fields)
    /\ UNCHANGED <<currentFrameId, expandedArrowId, breadcrumbs, selectedArrowId>>

\* ArrowPanel.handleCreateSubFrame: with a subFrameId on the arrow,
\* updateArrow(currentFrameId, arrowId, {hasSubFrame: true}); without one,
\* createSubFrame(arrowId, {title, description}).  The panel stays open.
handleCreateSubFrame ==
    /\ selectedArrowId # Null
    /\ EdgeDrawn(selectedArrowId)
    /\ LET frame == frames[currentFrameId]
           arrow == frame.arrows[FindIndex(frame.arrows, selectedArrowId)]
       IN  IF "subFrameId" \in DOMAIN arrow /\ arrow.subFrameId # ""
           THEN /\ Handled(Call("handleCreateSubFrame", currentFrameId, selectedArrowId,
                                [hasSubFrame |-> TRUE], ""))
                /\ frames' = [frames EXCEPT ![currentFrameId].arrows =
                                 UpdatedAt(@, selectedArrowId, [hasSubFrame |-> TRUE])]
                /\ UNCHANGED nanoCount
           ELSE IF IsUndefined(frame.nodes)
           THEN /\ Handled(Call("handleCreateSubFrame", currentFrameId, selectedArrowId,
                                NoFields, TypeError))
                /\ UNCHANGED <<frames, nanoCount>>
           ELSE /\ nanoCount < MaxIds
                /\ LET fields == [title |-> SubFrameTitle(frame, arrow),
                                  description |-> "Arguments supporting this relationship"]
                   IN  /\ Handled(Call("handleCreateSubFrame", currentFrameId,
                                       selectedArrowId, fields, nanoid(nanoCount + 1)))
                       /\ nanoCount' = nanoCount + 1
                       /\ frames' = FramesWithSubFrame(frames, currentFrameId,
                                                       selectedArrowId,
                                                       nanoid(nanoCount + 1), fields)
    /\ UNCHANGED <<currentFrameId, expandedArrowId, breadcrumbs, selectedArrowId>>

-----------------------------------------------------------------------------
\* Rendering: what the components derive from the store on every render.

\* ExpandedArrow's render for arrowId: null when the arrow is not found or not
\* expandable; otherwise subFrame = frames[arrow.subFrameId] is read with no
\* test, and subFrame.nodes.map / subFrame.arrows.map raise a TypeError when
\* subFrame (or its nodes) is undefined.
ExpandedArrow(fs, current, arrowId) ==
    LET currentFrame == fs[current]
        i == FindIndex(currentFrame.arrows, arrowId)
    IN  IF ~Expandable(currentFrame, arrowId)
        THEN [kind |-> "null"]
        ELSE LET subFrameId == currentFrame.arrows[i].subFrameId IN
             IF subFrameId \notin DOMAIN fs \/ IsUndefined(fs[subFrameId].nodes)
             THEN [kind |-> TypeError]
             ELSE [kind |-> "overlay",
                   nodes |-> [k \in 1..Len(fs[subFrameId].nodes) |-> fs[subFrameId].nodes[k].id],
                   edges |-> [k \in 1..Len(fs[subFrameId].arrows) |-> fs[subFrameId].arrows[k].id]]

\* BigArrowsCanvas: {expandedArrowId && <ExpandedArrow arrowId={expandedArrowId} />}
Overlay ==
    IF expandedArrowId # Null /\ expandedArrowId # ""
    THEN ExpandedArrow(frames, currentFrameId, expandedArrowId)
    ELSE [kind |-> "none"]

Next ==
    \/ \E arrowId \in ArrowIdArgs : expandArrow(arrowId)
    \/ collapseArrow
    \/ \E frameId \in DOMAIN frames \cup {NoSuchFrame} : navigateToFrame(frameId)
    \/ navigateBack
    \/ \E a \in CreateNodeArgs : createNode(a[1], a[2])
    \/ \E a \in UpdateNodeArgs : updateNode(a[1], a[2], a[3])
    \/ \E a \in DeleteNodeArgs : deleteNode(a[1], a[2])
    \/ \E a \in CreateArrowArgs : createArrow(a[1], a[2])
    \/ \E a \in UpdateArrowArgs : updateArrow(a[1], a[2], a[3])
    \/ \E a \in DeleteArrowArgs : deleteArrow(a[1], a[2])
    \/ \E frame \in CreateFrameArgs : createFrame(frame)
    \/ \E a \in CreateSubFrameArgs : createSubFrame(a[1], a[2])
    \/ \E edgeId \in ArrowIdArgs : onEdgeClick(edgeId)
    \/ \E id \in ArrowIdArgs : handleExpandClick(id)
    \/ \E type \in ArrowTypeArgs, hasSubFrame \in BOOLEAN : handleSave(type, hasSubFrame)
    \/ handleCreateSubFrame

Spec == Init /\ [][Next]_vars

-----------------------------------------------------------------------------
\* Properties.

\* The frame a call was made in, and the arrows of a frame that carry an id.
PrevCurrentFrame == prev.frames[prev.currentFrameId]

HasNode(frame, id) ==
    ~IsUndefined(frame.nodes) /\ \E i \in 1..Len(frame.nodes) : frame.nodes[i].id = id

ArrowsWithId(frame, id) == {i \in 1..Len(frame.arrows) : frame.arrows[i].id = id}

HasSubFrameId(arrow) == "subFrameId" \in DOMAIN arrow /\ arrow.subFrameId # ""

\* C1. Referential integrity: in every frame, every arrow's source and target
\* are ids of nodes of that same frame.
ReferentialIntegrity ==
    \A f \in DOMAIN frames :
        \A i \in 1..Len(frames[f].arrows) :
            /\ HasNode(frames[f], frames[f].arrows[i].source)
            /\ HasNode(frames[f], frames[f].arrows[i].target)

\* C2. Expansion invariant: a set expandedArrowId is the id of an arrow of the
\* current frame that has hasSubFrame = true and whose subFrameId is a key of
\* frames.
ExpansionInvariant ==
    expandedArrowId # Null =>
        \E i \in ArrowsWithId(frames[currentFrameId], expandedArrowId) :
            LET arrow == frames[currentFrameId].arrows[i] IN
            /\ arrow.hasSubFrame
            /\ HasSubFrameId(arrow)
            /\ arrow.subFrameId \in DOMAIN frames

\* C3. Breadcrumb invariant: breadcrumbs is never empty and its last element
\* is currentFrameId.
BreadcrumbInvariant ==
    /\ Len(breadcrumbs) >= 1
    /\ breadcrumbs[Len(breadcrumbs)] = currentFrameId

\* C3 witness: a navigateBack from a trail of three frames has left two.
BreadcrumbWitness ==
    /\ last.op = "navigateBack"
    /\ Len(prev.breadcrumbs) = 3
    /\ breadcrumbs = <<"main", "scientific-carbon">>
    /\ currentFrameId = "scientific-carbon"

\* C4. navigateToFrame on an existing frame makes it the current frame; the
\* trail gets it appended when it was not in the trail, and is otherwise cut
\* to the prefix that ends at its occurrence.
NavigateToFrameTrail ==
    (last.op = "navigateToFrame" /\ last.frameId \in DOMAIN prev.frames) =>
        /\ currentFrameId = last.frameId
        /\ IF \A i \in 1..Len(prev.breadcrumbs) : prev.breadcrumbs[i] # last.frameId
           THEN breadcrumbs = prev.breadcrumbs \o <<last.frameId>>
           ELSE \E k \in 1..Len(prev.breadcrumbs) :
                    /\ prev.breadcrumbs[k] = last.frameId
                    /\ breadcrumbs = SubSeq(prev.breadcrumbs, 1, k)

\* C4 witness: navigateToFrame('main') from a trail of three frames has cut
\* the two later entries.
NavigateToFrameWitness ==
    /\ last.op = "navigateToFrame"
    /\ last.frameId = "main"
    /\ prev.breadcrumbs = <<"main", "scientific-carbon", "climate-models-detail">>
    /\ breadcrumbs = <<"main">>

\* C5. navigateBack from a trail of two or more frames makes the second-to-last
\* entry current, clears expandedArrowId and drops exactly the last entry;
\* frames are unchanged.
NavigateBackPops ==
    (last.op = "navigateBack" /\ Len(prev.breadcrumbs) >= 2) =>
        /\ currentFrameId = prev.breadcrumbs[Len(prev.breadcrumbs) - 1]
        /\ expandedArrowId = Null
        /\ Len(breadcrumbs) = Len(prev.breadcrumbs) - 1
        /\ \A i \in 1..Len(breadcrumbs) : breadcrumbs[i] = prev.breadcrumbs[i]
        /\ frames = prev.frames

\* C5 witness: navigateBack was called in a sub-frame with an arrow expanded.
NavigateBackWitness ==
    /\ last.op = "navigateBack"
    /\ Len(prev.breadcrumbs) >= 2
    /\ prev.expandedArrowId # Null

\* C6. Cascade correctness: deleteNode(f, n) on an existing frame removes the
\* nodes with id n and exactly the arrows whose source or target is n; the
\* other nodes and arrows of f stay, in their order.
CascadeCorrectness ==
    (last.op = "deleteNode" /\ last.frameId \in DOMAIN prev.frames) =>
        LET old == prev.frames[last.frameId]
            new == frames[last.frameId]
        IN  /\ new.nodes = SelectSeq(old.nodes, LAMBDA n : ~(n.id = last.id))
            /\ new.arrows =
                  SelectSeq(old.arrows,
                            LAMBDA a : ~(a.source = last.id \/ a.target = last.id))

\* C6 witness: deleteNode removed a node of main, an arrow that left it and an
\* arrow that entered it, and kept other arrows.
CascadeWitness ==
    /\ last.op = "deleteNode"
    /\ last.frameId \in DOMAIN prev.frames
    /\ HasNode(prev.frames[last.frameId], last.id)
    /\ \E i \in 1..Len(prev.frames[last.frameId].arrows) :
          prev.frames[last.frameId].arrows[i].source = last.id
    /\ \E i \in 1..Len(prev.frames[last.frameId].arrows) :
          /\ prev.frames[last.frameId].arrows[i].target = last.id
          /\ prev.frames[last.frameId].arrows[i].source # last.id
    /\ Len(frames[last.frameId].arrows) >= 2

\* C7. Sub-frame idempotence: a second createSubFrame on the same arrow,
\* right after a first that returned a frame id, returns that same id and
\* adds no frame.
SubFrameIdempotence ==
    [][(/\ last.op = "createSubFrame"
        /\ last.ret # ""
        /\ last'.op = "createSubFrame"
        /\ last'.id = last.id)
          => (last'.ret = last.ret /\ DOMAIN frames' = DOMAIN frames)]_vars

\* C8. Expansion gating: expandArrow(id) changes expandedArrowId only to id,
\* and only when the current frame has an arrow with that id whose hasSubFrame
\* is true and whose subFrameId is a key of frames.
ExpansionGating ==
    (last.op = "expandArrow" /\ expandedArrowId # prev.expandedArrowId) =>
        /\ expandedArrowId = last.id
        /\ \E i \in ArrowsWithId(PrevCurrentFrame, last.id) :
              LET arrow == PrevCurrentFrame.arrows[i] IN
              /\ arrow.hasSubFrame
              /\ HasSubFrameId(arrow)
              /\ arrow.subFrameId \in DOMAIN prev.frames

\* C9. Level derivation: the frame a createSubFrame call creates has the level
\* of the frame that was current, plus one, whatever the fields argument.
LevelDerivation ==
    (last.op = "createSubFrame" /\ last.ret # "") =>
        frames[last.ret].level = PrevCurrentFrame.level + 1

\* C10. createSubFrame on an arrow of the current frame that has no subFrameId
\* adds exactly one frame, under a fresh id that it returns, with
\* parentArrowId = arrowId, and sets the arrow's subFrameId to that id and its
\* hasSubFrame to true.
SubFrameCreated ==
    (/\ last.op = "createSubFrame"
     /\ ArrowsWithId(PrevCurrentFrame, last.id) # {}
     /\ \A i \in ArrowsWithId(PrevCurrentFrame, last.id) :
           ~HasSubFrameId(PrevCurrentFrame.arrows[i]))
      =>
        /\ last.ret \notin DOMAIN prev.frames
        /\ DOMAIN frames = DOMAIN prev.frames \cup {last.ret}
        /\ frames[last.ret].parentArrowId = last.id
        /\ \E i \in ArrowsWithId(frames[currentFrameId], last.id) :
              LET arrow == frames[currentFrameId].arrows[i] IN
              /\ arrow.hasSubFrame
              /\ HasSubFrameId(arrow)
              /\ arrow.subFrameId = last.ret
              /\ frames[arrow.subFrameId].parentArrowId = last.id

\* C11. createSubFrame with an arrowId that is the id of no arrow of the
\* current frame leaves the whole store unchanged and returns ''.
SubFrameArrowNotFound ==
    (last.op = "createSubFrame" /\ ArrowsWithId(PrevCurrentFrame, last.id) = {}) =>
        /\ store = prev
        /\ last.ret = ""

\* C11 witness: createSubFrame was called in main with the id of an arrow that
\* only scientific-carbon has.
SubFrameArrowNotFoundWitness ==
    /\ last.op = "createSubFrame"
    /\ prev.currentFrameId = "main"
    /\ ArrowsWithId(prev.frames["main"], last.id) = {}
    /\ ArrowsWithId(prev.frames["scientific-carbon"], last.id) # {}

\* C12. Navigation clears expansion: after a navigateToFrame on an existing
\* frame, after a navigateBack that changed the current frame, and after any
\* call that changed the current frame, expandedArrowId is null.
NavigationClearsExpansion ==
    (\/ last.op = "navigateToFrame" /\ last.frameId \in DOMAIN prev.frames
     \/ last.op = "navigateBack" /\ currentFrameId # prev.currentFrameId
     \/ currentFrameId # prev.currentFrameId)
        => expandedArrowId = Null

\* C12 witness: navigateToFrame left a frame in which an arrow was expanded.
NavigationClearsExpansionWitness ==
    /\ last.op = "navigateToFrame"
    /\ prev.expandedArrowId # Null
    /\ currentFrameId # prev.currentFrameId

\* C13. collapseArrow leaves expandedArrowId null whatever it was, and a second
\* collapseArrow right after one changes nothing in the store.
CollapseIdempotent ==
    [][/\ last'.op = "collapseArrow" => expandedArrowId' = Null
       /\ (last.op = "collapseArrow" /\ last'.op = "collapseArrow") => store' = store]_vars

\* C13 witness: collapseArrow was called with an arrow expanded.
CollapseWitness ==
    /\ last.op = "collapseArrow"
    /\ prev.expandedArrowId # Null
    /\ expandedArrowId = Null

\* The ids nanoid() has handed out so far: what a successful create returns.
GeneratedIds == {nanoid(n) : n \in 1..nanoCount}

\* C14. createNode with a frameId that is no key of frames leaves the store
\* unchanged and returns no usable id: the value is the id of no node, and it
\* is not one of the generated ids a successful createNode returns.
CreateNodeMissingFrame ==
    (last.op = "createNode" /\ last.frameId \notin DOMAIN prev.frames) =>
        /\ store = prev
        /\ \A f \in DOMAIN frames : ~HasNode(frames[f], last.ret)
        /\ last.ret \notin GeneratedIds

\* C15. createNode on an existing frame appends exactly one node to the end of
\* the frame's nodes, with an id no node had before, with type proposition,
\* content '' and position (0, 0) for the fields that fields does not give,
\* and returns the appended node's id.
CreateNodeAppends ==
    (last.op = "createNode" /\ last.frameId \in DOMAIN prev.frames) =>
        LET old == prev.frames[last.frameId].nodes
            new == frames[last.frameId].nodes
            node == new[Len(new)]
        IN  /\ last.ret # TypeError
            /\ Len(new) = Len(old) + 1
            /\ SubSeq(new, 1, Len(old)) = old
            /\ \A f \in DOMAIN prev.frames : ~HasNode(prev.frames[f], node.id)
            /\ "type" \notin DOMAIN last.fields => node.type = "proposition"
            /\ "content" \notin DOMAIN last.fields => node.content = ""
            /\ "position" \notin DOMAIN last.fields => node.position = [x |-> 0, y |-> 0]
            /\ last.ret = node.id

\* C16. Frames are never deleted: every key of frames before a call is a key
\* of frames after it, and the seed's keys are keys of frames in every state.
FramesNeverDeleted ==
    /\ DOMAIN prev.frames \subseteq DOMAIN frames
    /\ DOMAIN exampleData \subseteq DOMAIN frames

\* C16 witness: deleteArrow removed an arrow that owns a sub-frame, and the
\* sub-frame is still in frames.
FramesNeverDeletedWitness ==
    /\ last.op = "deleteArrow"
    /\ last.frameId \in DOMAIN prev.frames
    /\ \E i \in ArrowsWithId(prev.frames[last.frameId], last.id) :
          /\ HasSubFrameId(prev.frames[last.frameId].arrows[i])
          /\ prev.frames[last.frameId].arrows[i].subFrameId \in DOMAIN frames
    /\ ArrowsWithId(frames[last.frameId], last.id) = {}

\* C17. Not-found is a silent no-op: updateNode, deleteNode, updateArrow and
\* deleteArrow with a frameId that is no key of frames, or with an id that no
\* node (no arrow) of that frame has, leave the store unchanged.
NotFoundIsNoOp ==
    (/\ last.op \in {"updateNode", "deleteNode", "updateArrow", "deleteArrow"}
     /\ \/ last.frameId \notin DOMAIN prev.frames
        \/ /\ last.op \in {"updateNode", "deleteNode"}
           /\ ~HasNode(prev.frames[last.frameId], last.id)
        \/ /\ last.op \in {"updateArrow", "deleteArrow"}
           /\ ArrowsWithId(prev.frames[last.frameId], last.id) = {})
      => store = prev

\* C18. Create-then-peek: after createSubFrame(a) on an arrow a of the current
\* frame with hasSubFrame = false and no subFrameId, expandArrow(a) sets
\* expandedArrowId = a, with currentFrameId and breadcrumbs as before the
\* createSubFrame; and a collapseArrow after that expansion sets
\* expandedArrowId to null and leaves currentFrameId and breadcrumbs alone.
CreateThenPeek ==
    [][/\ (/\ last.op = "createSubFrame"
           /\ ArrowsWithId(PrevCurrentFrame, last.id) # {}
           /\ \A i \in ArrowsWithId(PrevCurrentFrame, last.id) :
                 /\ ~PrevCurrentFrame.arrows[i].hasSubFrame
                 /\ ~HasSubFrameId(PrevCurrentFrame.arrows[i])
           /\ last'.op = "expandArrow"
           /\ last'.id = last.id)
             => /\ expandedArrowId' = last.id
                /\ currentFrameId' = prev.currentFrameId
                /\ breadcrumbs' = prev.breadcrumbs
       /\ (/\ last.op = "expandArrow"
           /\ expandedArrowId = last.id
           /\ last'.op = "collapseArrow")
             => /\ expandedArrowId' = Null
                /\ currentFrameId' = currentFrameId
                /\ breadcrumbs' = breadcrumbs]_vars

\* C18 witness: three calls were made, the last a collapseArrow of the expanded
\* arrow-scientific-to-economic, whose subFrameId is the first generated id:
\* createSubFrame, expandArrow, collapseArrow on that arrow, in main.
CreateThenPeekWitness ==
    /\ opCount = 3
    /\ last.op = "collapseArrow"
    /\ prev.expandedArrowId = "arrow-scientific-to-economic"
    /\ \E i \in ArrowsWithId(frames[currentFrameId], "arrow-scientific-to-economic") :
          /\ frames[currentFrameId].arrows[i].hasSubFrame
          /\ HasSubFrameId(frames[currentFrameId].arrows[i])
          /\ frames[currentFrameId].arrows[i].subFrameId = nanoid(1)
    /\ nanoid(1) \in DOMAIN frames
    /\ expandedArrowId = Null
    /\ currentFrameId = "main"
    /\ breadcrumbs = <<"main">>

\* C19. Forward/back symmetry: navigateBack right after a navigateToFrame on
\* an existing frame that was not in the trail restores currentFrameId and
\* breadcrumbs to what they were before the navigateToFrame.
ForwardBackSymmetry ==
    [][(/\ last.op = "navigateToFrame"
        /\ last.frameId \in DOMAIN prev.frames
        /\ \A i \in 1..Len(prev.breadcrumbs) : prev.breadcrumbs[i] # last.frameId
        /\ last'.op = "navigateBack")
          => /\ currentFrameId' = prev.currentFrameId
             /\ breadcrumbs' = prev.breadcrumbs]_vars

\* C19 witness: two calls were made, navigateToFrame('scientific-carbon') from
\* the trail [main] and then navigateBack.
ForwardBackWitness ==
    /\ opCount = 2
    /\ last.op = "navigateBack"
    /\ prev.breadcrumbs = <<"main", "scientific-carbon">>
    /\ prev.currentFrameId = "scientific-carbon"
    /\ breadcrumbs = <<"main">>
    /\ currentFrameId = "main"

\* C20. Totality: no call of a store operation raises, whatever its arguments,
\* and the current frame that expandArrow and createSubFrame dereference is a
\* key of frames.
Totality ==
    /\ last.ret # TypeError
    /\ currentFrameId \in DOMAIN frames

\* C21. Rendering is defensive: deriving the overlay for expandedArrowId never
\* raises, and it yields an empty result when the expanded arrow is not in the
\* current frame, is not expandable, or has a subFrameId that is no key of
\* frames.
RenderingDefensive ==
    /\ Overlay.kind # TypeError
    /\ (expandedArrowId # Null /\ ~ExpansionInvariant) => Overlay.kind = "null"

\* C22. An arrow-clicked(id) event on an arrow of the current frame that is
\* expandable (hasSubFrame true and subFrameId set) calls expandArrow(id), so
\* that afterwards expandedArrowId = id.
ArrowClickedExpands ==
    (/\ last.op = "onEdgeClick"
     /\ \E i \in ArrowsWithId(PrevCurrentFrame, last.id) :
           /\ PrevCurrentFrame.arrows[i].hasSubFrame
           /\ HasSubFrameId(PrevCurrentFrame.arrows[i]))
        => expandedArrowId = last.id

\* C23. 'Save to create a new sub-frame': after the arrow panel is saved with
\* 'Has Sub-Frame' checked for an arrow that had no subFrameId, the arrow has
\* hasSubFrame = true and a subFrameId that is a key of frames.
SaveCreatesSubFrame ==
    (/\ last.op = "handleSave"
     /\ last.fields.hasSubFrame
     /\ \A i \in ArrowsWithId(PrevCurrentFrame, last.id) :
           ~HasSubFrameId(PrevCurrentFrame.arrows[i]))
        => \E i \in ArrowsWithId(frames[currentFrameId], last.id) :
              LET arrow == frames[currentFrameId].arrows[i] IN
              /\ arrow.hasSubFrame
              /\ HasSubFrameId(arrow)
              /\ arrow.subFrameId \in DOMAIN frames

\* C24. navigateBack with a trail of length <= 1 is a complete no-op:
\* currentFrameId, breadcrumbs, frames and expandedArrowId are unchanged, also
\* when an arrow is expanded.
NavigateBackAtRoot ==
    (last.op = "navigateBack" /\ Len(prev.breadcrumbs) <= 1) =>
        /\ currentFrameId = prev.currentFrameId
        /\ breadcrumbs = prev.breadcrumbs
        /\ frames = prev.frames
        /\ expandedArrowId = prev.expandedArrowId

\* C24 witness: navigateBack was called at the root with an arrow expanded.
NavigateBackAtRootWitness ==
    /\ last.op = "navigateBack"
    /\ Len(prev.breadcrumbs) = 1
    /\ prev.expandedArrowId # Null
    /\ expandedArrowId = prev.expandedArrowId

\* C25. navigateToFrame with a frameId that is no key of frames leaves
\* currentFrameId, breadcrumbs, expandedArrowId and frames unchanged.
NavigateToMissingFrame ==
    (last.op = "navigateToFrame" /\ last.frameId \notin DOMAIN prev.frames) =>
        /\ currentFrameId = prev.currentFrameId
        /\ breadcrumbs = prev.breadcrumbs
        /\ expandedArrowId = prev.expandedArrowId
        /\ frames = prev.frames

\* C25 witness: navigateToFrame('no-such-frame') was called in a sub-frame
\* with an arrow expanded.
NavigateToMissingFrameWitness ==
    /\ last.op = "navigateToFrame"
    /\ last.frameId \notin DOMAIN prev.frames
    /\ Len(prev.breadcrumbs) >= 2
    /\ prev.expandedArrowId # Null
    /\ store = prev

\* C26. Expansion is not history-recorded: expandArrow and collapseArrow never
\* change currentFrameId, breadcrumbs or frames, and a call that changed
\* currentFrameId or breadcrumbs was navigateToFrame or navigateBack.
ExpansionNotRecorded ==
    /\ last.op \in {"expandArrow", "collapseArrow"} =>
          /\ currentFrameId = prev.currentFrameId
          /\ breadcrumbs = prev.breadcrumbs
          /\ frames = prev.frames
    /\ (currentFrameId # prev.currentFrameId \/ breadcrumbs # prev.breadcrumbs) =>
          last.op \in {"navigateToFrame", "navigateBack"}

\* C26 witness: an expandArrow in a sub-frame has set expandedArrowId.
ExpansionNotRecordedWitness ==
    /\ last.op = "expandArrow"
    /\ prev.expandedArrowId = Null
    /\ expandedArrowId = last.id
    /\ currentFrameId = "scientific-carbon"
    /\ breadcrumbs = <<"main", "scientific-carbon">>

\* C27. deleteArrow(f, a) on an existing frame f removes from f.arrows exactly
\* the arrows whose id is a: the other arrows of f in their order, f.nodes and
\* every other frame, the deleted arrow's sub-frame included, are unchanged.
DeleteArrowExact ==
    (last.op = "deleteArrow" /\ last.frameId \in DOMAIN prev.frames) =>
        LET old == prev.frames[last.frameId]
            new == frames[last.frameId]
        IN  /\ DOMAIN frames = DOMAIN prev.frames
            /\ \A f \in DOMAIN frames \ {last.frameId} : frames[f] = prev.frames[f]
            /\ new.nodes = old.nodes
            /\ new.arrows = SelectSeq(old.arrows, LAMBDA a : ~(a.id = last.id))
            /\ [k \in DOMAIN new \ {"arrows"} |-> new[k]] =
                  [k \in DOMAIN old \ {"arrows"} |-> old[k]]

\* C27 witness: deleteArrow('main', 'arrow-scientific-to-carbon') removed the
\* first of main's four arrows, an arrow with a sub-frame, and the sub-frame
\* is as it was.
DeleteArrowExactWitness ==
    /\ last.op = "deleteArrow"
    /\ last.frameId = "main"
    /\ last.id = "arrow-scientific-to-carbon"
    /\ prev.frames = exampleData
    /\ Len(frames["main"].arrows) = 3
    /\ ArrowsWithId(frames["main"], last.id) = {}
    /\ frames["scientific-carbon"] = exampleData["scientific-carbon"]

\* C28. Dangling flag: updateArrow(f, a, {hasSubFrame: true}) on an arrow that
\* has no subFrameId adds no frame and sets no subFrameId, and an expandArrow(a)
\* that follows it leaves expandedArrowId unchanged.
DanglingFlag ==
    [][/\ (/\ last'.op = "updateArrow"
           /\ DOMAIN last'.fields = {"hasSubFrame"}
           /\ last'.fields.hasSubFrame
           /\ last'.frameId \in DOMAIN frames
           /\ \A i \in ArrowsWithId(frames[last'.frameId], last'.id) :
                 ~HasSubFrameId(frames[last'.frameId].arrows[i]))
             => /\ DOMAIN frames' = DOMAIN frames
                /\ \A i \in ArrowsWithId(frames'[last'.frameId], last'.id) :
                      ~HasSubFrameId(frames'[last'.frameId].arrows[i])
       /\ (/\ last.op = "updateArrow"
           /\ DOMAIN last.fields = {"hasSubFrame"}
           /\ last.fields.hasSubFrame
           /\ last.frameId = currentFrameId
           /\ \A i \in ArrowsWithId(PrevCurrentFrame, last.id) :
                 ~HasSubFrameId(PrevCurrentFrame.arrows[i])
           /\ last'.op = "expandArrow"
           /\ last'.id = last.id)
             => expandedArrowId' = expandedArrowId]_vars

\* C28 witness: updateArrow('main', 'arrow-scientific-to-economic',
\* {hasSubFrame: true}) and then expandArrow of that arrow, which has the flag
\* and no subFrameId, with nothing expanded after it.
DanglingFlagWitness ==
    /\ opCount = 2
    /\ last.op = "expandArrow"
    /\ last.id = "arrow-scientific-to-economic"
    /\ prev.currentFrameId = "main"
    /\ \E i \in ArrowsWithId(PrevCurrentFrame, last.id) :
          /\ PrevCurrentFrame.arrows[i].hasSubFrame
          /\ ~HasSubFrameId(PrevCurrentFrame.arrows[i])
    /\ DOMAIN frames = DOMAIN exampleData
    /\ expandedArrowId = Null

\* The arrow that find(a => a.id === id) names in a frame that has one.
ArrowNamed(frame, id) ==
    frame.arrows[CHOOSE i \in ArrowsWithId(frame, id) :
                    \A j \in ArrowsWithId(frame, id) : i <= j]

\* last is updateArrow(f, a, {hasSubFrame: flag}) with f the current frame, on
\* an arrow that had hasSubFrame = ~flag and a subFrameId that is a key of frames.
FlagSet(flag) ==
    /\ last.op = "updateArrow"
    /\ DOMAIN last.fields = {"hasSubFrame"}
    /\ last.fields.hasSubFrame = flag
    /\ last.frameId = prev.currentFrameId
    /\ ArrowsWithId(PrevCurrentFrame, last.id) # {}
    /\ ArrowNamed(PrevCurrentFrame, last.id).hasSubFrame = ~flag
    /\ HasSubFrameId(ArrowNamed(PrevCurrentFrame, last.id))
    /\ ArrowNamed(PrevCurrentFrame, last.id).subFrameId \in DOMAIN prev.frames

\* C29. Hide without delete: updateArrow(f, a, {hasSubFrame: false}) on an
\* arrow with subFrameId = s keeps subFrameId = s and frame s as it was; an
\* expandArrow(a) while hidden is refused; and after hasSubFrame is set back to
\* true expandArrow(a) succeeds, the arrow still names s and s is intact.
HideWithoutDelete ==
    [][/\ FlagSet(FALSE) =>
             LET s == ArrowNamed(PrevCurrentFrame, last.id).subFrameId IN
             /\ HasSubFrameId(ArrowNamed(frames[currentFrameId], last.id))
             /\ ArrowNamed(frames[currentFrameId], last.id).subFrameId = s
             /\ frames[s] = prev.frames[s]
             /\ (last'.op = "expandArrow" /\ last'.id = last.id)
                   => expandedArrowId' = expandedArrowId
       /\ FlagSet(TRUE) =>
             LET s == ArrowNamed(PrevCurrentFrame, last.id).subFrameId IN
             (last'.op = "expandArrow" /\ last'.id = last.id)
                => /\ expandedArrowId' = last.id
                   /\ ArrowNamed(frames'[currentFrameId'], last.id).subFrameId = s
                   /\ frames'[s] = prev.frames[s]]_vars

\* C29 witness: arrow-scientific-to-carbon, hidden by updateArrow with
\* {hasSubFrame: false}, was given its flag back by updateArrow with
\* {hasSubFrame: true}; it names scientific-carbon, which is as in the seed.
HideWithoutDeleteWitness ==
    /\ opCount = 2
    /\ FlagSet(TRUE)
    /\ last.id = "arrow-scientific-to-carbon"
    /\ ArrowNamed(frames["main"], last.id).hasSubFrame
    /\ ArrowNamed(frames["main"], last.id).subFrameId = "scientific-carbon"
    /\ frames["scientific-carbon"] = exampleData["scientific-carbon"]

\* C30. Sub-frame reference validity: an arrow has a subFrameId set if and
\* only if a sub-frame was created for it (a frame whose parentArrowId is the
\* arrow's id, from the seed or from createSubFrame), and every subFrameId that
\* is set is a key of frames.
SubFrameReferenceValid ==
    \A f \in DOMAIN frames :
        \A i \in 1..Len(frames[f].arrows) :
            LET arrow == frames[f].arrows[i]
                createdFor == {s \in DOMAIN frames :
                                 /\ "parentArrowId" \in DOMAIN frames[s]
                                 /\ frames[s].parentArrowId = arrow.id}
            IN  /\ HasSubFrameId(arrow) <=> createdFor # {}
                /\ HasSubFrameId(arrow) => arrow.subFrameId \in DOMAIN frames

\* C31. Id uniqueness within a frame: in every frame no two nodes have the
\* same id and no two arrows have the same id.
IdUniqueness ==
    \A f \in DOMAIN frames :
        /\ ~IsUndefined(frames[f].nodes) =>
              \A i, j \in 1..Len(frames[f].nodes) :
                  frames[f].nodes[i].id = frames[f].nodes[j].id => i = j
        /\ \A i, j \in 1..Len(frames[f].arrows) :
              frames[f].arrows[i].id = frames[f].arrows[j].id => i = j

\* C32. Frame scoping: createNode, updateNode, deleteNode, createArrow,
\* updateArrow and deleteArrow called with frameId f change at most the nodes
\* and arrows of frames[f]: the keys of frames, every other frame and the other
\* fields of frames[f] are unchanged.
FrameScoping ==
    last.op \in {"createNode", "updateNode", "deleteNode",
                 "createArrow", "updateArrow", "deleteArrow"} =>
        /\ DOMAIN frames = DOMAIN prev.frames
        /\ \A f \in DOMAIN frames :
              IF f = last.frameId
              THEN [k \in DOMAIN frames[f] \ {"nodes", "arrows"} |-> frames[f][k]] =
                   [k \in DOMAIN prev.frames[f] \ {"nodes", "arrows"} |-> prev.frames[f][k]]
              ELSE frames[f] = prev.frames[f]

\* C32 witness: deleteNode('scientific-carbon', 'carbon-tax') removed a node
\* whose id is also the id of a node of main, and main is as it was.
FrameScopingWitness ==
    /\ last.op = "deleteNode"
    /\ last.frameId = "scientific-carbon"
    /\ last.id = "carbon-tax"
    /\ HasNode(prev.frames["scientific-carbon"], "carbon-tax")
    /\ ~HasNode(frames["scientific-carbon"], "carbon-tax")
    /\ HasNode(frames["main"], "carbon-tax")
    /\ frames["main"] = prev.frames["main"]

\* Every arrow whose subFrameId names a frame S sits in a frame P with
\* S.parentArrowId the arrow's id and S.level = P.level + 1; main has level 0.
Nested ==
    /\ frames["main"].level = 0
    /\ \A P \in DOMAIN frames :
          \A i \in 1..Len(frames[P].arrows) :
              LET a == frames[P].arrows[i] IN
              (HasSubFrameId(a) /\ a.subFrameId \in DOMAIN frames) =>
                  LET S == frames[a.subFrameId] IN
                  /\ "parentArrowId" \in DOMAIN S
                  /\ S.parentArrowId = a.id
                  /\ S.level = frames[P].level + 1

\* The call is one the claim's premise allows: a createSubFrame with title and
\* description fields only, an updateArrow that writes no subFrameId, or any
\* other call.
UiLikeCall(call) ==
    /\ call.op = "createSubFrame" => DOMAIN call.fields \subseteq {"title", "description"}
    /\ call.op \in {"updateArrow", "handleSave"} => "subFrameId" \notin DOMAIN call.fields

\* C33. Nesting consistency: the seed is nested, and a call that the premise
\* allows (createSubFrame with title/description only, updateArrow not writing
\* subFrameId) made in a nested state leaves the state nested.
NestingConsistency ==
    Nested /\ [][(Nested /\ UiLikeCall(last')) => Nested']_vars

\* C34. handleCreateSubFrame never allocates a second frame for an arrow: on
\* an arrow with a subFrameId it only sets hasSubFrame = true (the keys of
\* frames and the subFrameId are unchanged); on an arrow without one it adds
\* one frame and links it; a repeated invocation on the same arrow adds none.
PanelSubFrameOnce ==
    [][/\ last'.op = "handleCreateSubFrame" =>
             LET old == ArrowNamed(frames[currentFrameId], last'.id)
                 new == ArrowNamed(frames'[currentFrameId], last'.id)
             IN  IF HasSubFrameId(old)
                 THEN /\ DOMAIN frames' = DOMAIN frames
                      /\ new.subFrameId = old.subFrameId
                      /\ new.hasSubFrame
                 ELSE /\ DOMAIN frames \subseteq DOMAIN frames'
                      /\ Cardinality(DOMAIN frames' \ DOMAIN frames) = 1
                      /\ HasSubFrameId(new)
                      /\ new.subFrameId \in DOMAIN frames' \ DOMAIN frames
       /\ (/\ last.op = "handleCreateSubFrame"
           /\ last'.op = "handleCreateSubFrame"
           /\ last'.id = last.id)
             => DOMAIN frames' = DOMAIN frames]_vars

\* C34 witness: handleCreateSubFrame was invoked on
\* arrow-scientific-to-economic after the frame nano1 had been created for it
\* (by a first invocation or by createSubFrame), and frames has that one new
\* frame only.
PanelSubFrameOnceWitness ==
    /\ opCount = 3
    /\ last.op = "handleCreateSubFrame"
    /\ last.id = "arrow-scientific-to-economic"
    /\ prev.currentFrameId = "main"
    /\ ArrowsWithId(PrevCurrentFrame, last.id) # {}
    /\ HasSubFrameId(ArrowNamed(PrevCurrentFrame, last.id))
    /\ ArrowNamed(PrevCurrentFrame, last.id).subFrameId = nanoid(1)
    /\ DOMAIN prev.frames = DOMAIN exampleData \cup {nanoid(1)}
    /\ DOMAIN frames = DOMAIN prev.frames
    /\ ArrowNamed(frames["main"], last.id).subFrameId = nanoid(1)

\* C35. Navigation targets always exist: currentFrameId is a key of frames and
\* every entry of breadcrumbs is a key of frames.
NavigationTargetsExist ==
    /\ currentFrameId \in DOMAIN frames
    /\ \A i \in 1..Len(breadcrumbs) : breadcrumbs[i] \in DOMAIN frames

\* C35 witness: a frame made by createFrame is current and in the trail, and
\* a navigateToFrame to an id that names no frame was called there.
NavigationTargetsWitness ==
    /\ last.op = "navigateToFrame"
    /\ last.frameId \notin DOMAIN frames
    /\ currentFrameId = nanoid(1)
    /\ breadcrumbs = <<"main", nanoid(1)>>

\* C36. breadcrumbs contains no frame id more than once, hence its length
\* never exceeds the number of frames.
BreadcrumbsDistinct ==
    /\ \A i, j \in 1..Len(breadcrumbs) : breadcrumbs[i] = breadcrumbs[j] => i = j
    /\ Len(breadcrumbs) <= Cardinality(DOMAIN frames)

\* C36 witness: navigateToFrame('main') from the trail [main,
\* scientific-carbon] has cut the trail to [main].
BreadcrumbsDistinctWitness ==
    /\ last.op = "navigateToFrame"
    /\ last.frameId = "main"
    /\ prev.breadcrumbs = <<"main", "scientific-carbon">>
    /\ breadcrumbs = <<"main">>

\* C37. The first breadcrumb is fixed: breadcrumbs[0] is the root entry 'main'
\* in every state.
FirstBreadcrumbFixed ==
    /\ Len(breadcrumbs) >= 1
    /\ breadcrumbs[1] = "main"

\* C37 witness: navigateToFrame('scientific-carbon') from a trail of three
\* frames has cut it to [main, scientific-carbon].
FirstBreadcrumbWitness ==
    /\ last.op = "navigateToFrame"
    /\ last.frameId = "scientific-carbon"
    /\ prev.breadcrumbs = <<"main", "scientific-carbon", "climate-models-detail">>
    /\ breadcrumbs = <<"main", "scientific-carbon">>

\* C38. Editing never moves the view: createNode, updateNode, deleteNode,
\* createArrow, updateArrow, deleteArrow, createFrame and createSubFrame leave
\* currentFrameId, breadcrumbs and expandedArrowId unchanged.
EditingKeepsView ==
    last.op \in {"createNode", "updateNode", "deleteNode", "createArrow",
                 "updateArrow", "deleteArrow", "createFrame", "createSubFrame"} =>
        /\ currentFrameId = prev.currentFrameId
        /\ breadcrumbs = prev.breadcrumbs
        /\ expandedArrowId = prev.expandedArrowId

\* C38 witness: deleteArrow removed the arrow that is expanded, in the current
\* frame, and it is still the expanded one.
EditingKeepsViewWitness ==
    /\ last.op = "deleteArrow"
    /\ last.frameId = currentFrameId
    /\ last.id = prev.expandedArrowId
    /\ ArrowsWithId(PrevCurrentFrame, last.id) # {}
    /\ ArrowsWithId(frames[currentFrameId], last.id) = {}
    /\ expandedArrowId = last.id

\* C39. Frame key consistency: for every key k of frames, frames[k].id = k,
\* and the id createFrame or createSubFrame returns is the key and the id of
\* the frame it inserted.
FrameKeyConsistency ==
    /\ \A k \in DOMAIN frames : frames[k].id = k
    /\ (last.op \in {"createFrame", "createSubFrame"} /\ last.ret # "") =>
          /\ last.ret \in DOMAIN frames \ DOMAIN prev.frames
          /\ frames[last.ret].id = last.ret

====
